---- MODULE Spec2Model ----
(***************************************************************************)
(* Model of the file converter: the conversion registry                    *)
(* (src/src/registry.py) and the per-file conversion driver                *)
(* (src/src/tui/screens/progress_screen.py).                               *)
(*                                                                         *)
(* A Python str is a sequence of one-character strings, so that            *)
(* str.lower() and the ordering used by sorted() are computed, not         *)
(* assumed.                                                                *)
(***************************************************************************)
EXTENDS Integers, Sequences, FiniteSets, TLC

(***************************************************************************)
(* Strings                                                                 *)
(***************************************************************************)
Digits == <<"0", "1", "2", "3", "4", "5", "6", "7", "8", "9">>

Uppers == <<"A", "B", "C", "D", "E", "F", "G", "H", "I", "J", "K", "L", "M",
            "N", "O", "P", "Q", "R", "S", "T", "U", "V", "W", "X", "Y", "Z">>

Lowers == <<"a", "b", "c", "d", "e", "f", "g", "h", "i", "j", "k", "l", "m",
            "n", "o", "p", "q", "r", "s", "t", "u", "v", "w", "x", "y", "z">>

IndexOf(seq, c) == CHOOSE i \in 1..Len(seq) : seq[i] = c

InSeq(seq, c) == \E i \in 1..Len(seq) : seq[i] = c

\* Code point of a character (ASCII digits and letters; "." is 46).
Ord(c) ==
    IF InSeq(Digits, c) THEN 47 + IndexOf(Digits, c)
    ELSE IF InSeq(Uppers, c) THEN 64 + IndexOf(Uppers, c)
    ELSE IF InSeq(Lowers, c) THEN 96 + IndexOf(Lowers, c)
    ELSE 46

\* The lower-case letter of every upper-case letter.
UpperToLower ==
    [c \in {Uppers[i] : i \in 1..Len(Uppers)} |-> Lowers[IndexOf(Uppers, c)]]

\* str.lower() on one character: an upper-case letter maps to its
\* lower-case letter, anything else to itself.
LowerChar(c) == IF c \in DOMAIN UpperToLower THEN UpperToLower[c] ELSE c

\* str.lower()
Lower(s) == [i \in 1..Len(s) |-> LowerChar(s[i])]

\* str.upper() on one character, used to build mixed-case arguments.
UpperChar(c) == IF InSeq(Lowers, c) THEN Uppers[IndexOf(Lowers, c)] ELSE c

Upper(s) == [i \in 1..Len(s) |-> UpperChar(s[i])]

\* str.capitalize(): first character upper-case, the rest lower-case.
Capitalize(s) ==
    [i \in 1..Len(s) |-> IF i = 1 THEN UpperChar(s[i]) ELSE LowerChar(s[i])]

\* a < b in Python's ordering of str (lexicographic by code point).
StrLess(a, b) ==
    \/ /\ Len(a) < Len(b)
       /\ \A i \in 1..Len(a) : a[i] = b[i]
    \/ \E i \in 1..Len(a) :
          /\ i <= Len(b)
          /\ \A j \in 1..(i - 1) : a[j] = b[j]
          /\ Ord(a[i]) < Ord(b[i])

RECURSIVE InsertSorted(_, _)
InsertSorted(sorted, x) ==
    IF sorted = <<>> THEN <<x>>
    ELSE IF StrLess(x, Head(sorted)) THEN <<x>> \o sorted
    ELSE <<Head(sorted)>> \o InsertSorted(Tail(sorted), x)

\* sorted(iterable of str): a stable ascending sort.
RECURSIVE Sorted(_)
Sorted(seq) ==
    IF seq = <<>> THEN <<>>
    ELSE InsertSorted(Sorted(SubSeq(seq, 1, Len(seq) - 1)), seq[Len(seq)])

(***************************************************************************)
(* Format names                                                            *)
(***************************************************************************)
heic == <<"h", "e", "i", "c">>
jpg  == <<"j", "p", "g">>
jpeg == <<"j", "p", "e", "g">>
png  == <<"p", "n", "g">>
webp == <<"w", "e", "b", "p">>
gif  == <<"g", "i", "f">>
bmp  == <<"b", "m", "p">>
tiff == <<"t", "i", "f", "f">>
mp4  == <<"m", "p", "4">>
avi  == <<"a", "v", "i">>
mkv  == <<"m", "k", "v">>
mov  == <<"m", "o", "v">>
wmv  == <<"w", "m", "v">>
flv  == <<"f", "l", "v">>
mp3  == <<"m", "p", "3">>
wav  == <<"w", "a", "v">>
flac == <<"f", "l", "a", "c">>
aac  == <<"a", "a", "c">>
ogg  == <<"o", "g", "g">>
m4a  == <<"m", "4", "a">>
pdf  == <<"p", "d", "f">>
docx == <<"d", "o", "c", "x">>
txt  == <<"t", "x", "t">>
xyz  == <<"x", "y", "z">>

(***************************************************************************)
(* registry.py: MediaType, EXTENSION_MEDIA_TYPE                            *)
(***************************************************************************)
\* An enum member is the record of its value; None is a record of another
\* shape, so that it compares unequal to every object.
IMAGE    == [value |-> "image"]
VIDEO    == [value |-> "video"]
AUDIO    == [value |-> "audio"]
DOCUMENT == [value |-> "document"]

MediaType == {IMAGE, VIDEO, AUDIO, DOCUMENT}

\* Python's None
None == [none |-> TRUE]

ImageExtensions    == {heic, jpg, jpeg, png, webp, gif, bmp, tiff}
VideoExtensions    == {mp4, avi, mkv, mov, wmv, flv}
AudioExtensions    == {mp3, wav, flac, aac, ogg, m4a}
DocumentExtensions == {pdf, docx, txt}

KnownExtensions ==
    ImageExtensions \cup VideoExtensions \cup AudioExtensions
        \cup DocumentExtensions

EXTENSION_MEDIA_TYPE ==
    [e \in KnownExtensions |->
        IF e \in ImageExtensions THEN IMAGE
        ELSE IF e \in VideoExtensions THEN VIDEO
        ELSE IF e \in AudioExtensions THEN AUDIO
        ELSE DOCUMENT]

\* Mutant: EXTENSION_MEDIA_TYPE.get(ext, MediaType.IMAGE), a default
\* domain for an unknown key.
MediaTypeGet_default_image(ext) ==
    IF ext \in DOMAIN EXTENSION_MEDIA_TYPE THEN EXTENSION_MEDIA_TYPE[ext]
    ELSE IMAGE

\* EXTENSION_MEDIA_TYPE.get(ext): the domain, or None for an unknown key.
MediaTypeGet(ext) ==
    IF ext \in DOMAIN EXTENSION_MEDIA_TYPE THEN EXTENSION_MEDIA_TYPE[ext]
    ELSE None

(***************************************************************************)
(* registry.py: ConversionRoute, ConversionRegistry                        *)
(***************************************************************************)
ImageConverter    == "ImageConverter"
VideoConverter    == "VideoConverter"
AudioConverter    == "AudioConverter"
DocumentConverter == "DocumentConverter"

\* Mutant: the lossy argument is dropped and the field keeps its default.
ConversionRoute_lossy_default(src, tgt, cls, lossy) ==
    [source_format |-> src, target_format |-> tgt,
     converter_class |-> cls, lossy |-> FALSE]

ConversionRoute(src, tgt, cls, lossy) ==
    [source_format |-> src, target_format |-> tgt,
     converter_class |-> cls, lossy |-> lossy]

\* The registry's _routes is a dict: here the sequence of its items in
\* insertion order, each key occurring once.
DictContains(d, key) == \E i \in 1..Len(d) : d[i].key = key

DictGet(d, key) == d[CHOOSE i \in 1..Len(d) : d[i].key = key].value

\* d[key] = value: overwrite in place, or append a new item.
DictSet(d, key, value) ==
    IF DictContains(d, key)
    THEN [i \in 1..Len(d) |->
            IF d[i].key = key THEN [key |-> key, value |-> value] ELSE d[i]]
    ELSE Append(d, [key |-> key, value |-> value])

DictKeys(d) == [i \in 1..Len(d) |-> d[i].key]

\* ConversionRegistry.register
register(rts, route) ==
    LET key == <<Lower(route.source_format), Lower(route.target_format)>>
    IN  DictSet(rts, key, route)

\* Mutant: the target is looked up as given, without lower().
is_valid_case_sensitive(rts, source_format, target_format) ==
    DictContains(rts, <<Lower(source_format), target_format>>)

\* ConversionRegistry.is_valid
is_valid(rts, source_format, target_format) ==
    DictContains(rts, <<Lower(source_format), Lower(target_format)>>)

CrossDomainText == "Cross-domain conversion not supported: "
NoRouteText     == "No conversion route registered for: "

\* Mutant: the domain check is missing and every unregistered pair gets
\* the generic error.
get_route_generic_only(rts, source_format, target_format) ==
    LET key == <<Lower(source_format), Lower(target_format)>>
    IN  IF ~DictContains(rts, key)
        THEN [raised |-> TRUE, exc |-> "ValueError",
              msg |-> <<NoRouteText, source_format, target_format>>]
        ELSE [raised |-> FALSE, value |-> DictGet(rts, key)]

\* ConversionRegistry.get_route: the route, or the ValueError it raises.
\* The error message is the tuple of the parts the f-string joins.
get_route(rts, source_format, target_format) ==
    LET key      == <<Lower(source_format), Lower(target_format)>>
        src_type == MediaTypeGet(Lower(source_format))
        tgt_type == MediaTypeGet(Lower(target_format))
    IN  IF ~DictContains(rts, key)
        THEN IF src_type # None /\ tgt_type # None /\ src_type # tgt_type
             THEN [raised |-> TRUE, exc |-> "ValueError",
                   msg |-> <<CrossDomainText, source_format, src_type.value,
                             target_format, tgt_type.value>>]
             ELSE [raised |-> TRUE, exc |-> "ValueError",
                   msg |-> <<NoRouteText, source_format, target_format>>]
        ELSE [raised |-> FALSE, value |-> DictGet(rts, key)]

\* The generator of get_valid_targets: the targets of the keys whose
\* source is src, in the dict's iteration order.
TargetsOf(keys, src) ==
    LET own == SelectSeq(keys, LAMBDA k : k[1] = src)
    IN  [i \in 1..Len(own) |-> own[i][2]]

\* Mutant: the targets are returned in the dict's order, without sorted().
get_valid_targets_unsorted(rts, source_format) ==
    TargetsOf(DictKeys(rts), Lower(source_format))

\* ConversionRegistry.get_valid_targets
get_valid_targets(rts, source_format) ==
    Sorted(TargetsOf(DictKeys(rts), Lower(source_format)))

\* Mutant: the extension is looked up as given, without lower().
get_media_type_case_sensitive(extension) == MediaTypeGet(extension)

\* ConversionRegistry.get_media_type
get_media_type(extension) == MediaTypeGet(Lower(extension))

(***************************************************************************)
(* registry.py: build_default_registry                                     *)
(***************************************************************************)
image_routes == <<
    <<heic, jpg,  TRUE>>,
    <<heic, png,  FALSE>>,
    <<jpg,  png,  FALSE>>,
    <<jpg,  webp, TRUE>>,
    <<png,  jpg,  TRUE>>,
    <<png,  webp, FALSE>>,
    <<png,  gif,  FALSE>>,
    <<webp, jpg,  TRUE>>,
    <<webp, png,  FALSE>>,
    <<gif,  png,  FALSE>>,
    <<bmp,  jpg,  TRUE>>,
    <<bmp,  png,  FALSE>>,
    <<tiff, jpg,  TRUE>>,
    <<tiff, png,  FALSE>> >>

video_routes == <<
    <<mp4, avi, FALSE>>,
    <<mp4, mkv, FALSE>>,
    <<mp4, mov, FALSE>>,
    <<avi, mp4, FALSE>>,
    <<avi, mkv, FALSE>>,
    <<mkv, mp4, FALSE>>,
    <<mkv, avi, FALSE>>,
    <<mov, mp4, FALSE>>,
    <<mov, avi, FALSE>> >>

audio_routes == <<
    <<mp3,  wav,  FALSE>>,
    <<mp3,  flac, FALSE>>,
    <<wav,  mp3,  TRUE>>,
    <<wav,  flac, FALSE>>,
    <<flac, mp3,  TRUE>>,
    <<flac, wav,  FALSE>>,
    <<aac,  mp3,  TRUE>>,
    <<aac,  wav,  FALSE>>,
    <<m4a,  mp3,  TRUE>>,
    <<m4a,  wav,  FALSE>> >>

\* Mutant: a route from a document to an image slipped into the table.
document_routes_cross_domain == <<
    <<pdf,  txt, FALSE>>,
    <<docx, txt, FALSE>>,
    <<pdf,  png, FALSE>> >>

document_routes == <<
    <<pdf,  txt, FALSE>>,
    <<docx, txt, FALSE>> >>

WithClass(table, cls) ==
    [i \in 1..Len(table) |->
        ConversionRoute(table[i][1], table[i][2], cls, table[i][3])]

RouteKey(r) == <<Lower(r.source_format), Lower(r.target_format)>>

\* for src, tgt, lossy in table: registry.register(...), the whole loop on
\* the registry rts, in closed form: an item of rts whose key the table
\* registers again keeps its place and gets the last route registered
\* under the key; every other key of the table is appended where it is
\* first registered.
RegisterAll(rts, table) ==
    LET InTable(k) == \E i \in 1..Len(table) : RouteKey(table[i]) = k
        Last(k) ==
            table[CHOOSE i \in 1..Len(table) :
                    /\ RouteKey(table[i]) = k
                    /\ \A j \in (i + 1)..Len(table) : RouteKey(table[j]) # k]
        kept ==
            [i \in 1..Len(rts) |->
                IF InTable(rts[i].key)
                THEN [key |-> rts[i].key, value |-> Last(rts[i].key)]
                ELSE rts[i]]
        firsts ==
            SelectSeq([i \in 1..Len(table) |-> i],
                      LAMBDA i :
                        /\ ~DictContains(rts, RouteKey(table[i]))
                        /\ \A j \in 1..(i - 1) :
                              RouteKey(table[j]) # RouteKey(table[i]))
        added ==
            [n \in 1..Len(firsts) |->
                [key   |-> RouteKey(table[firsts[n]]),
                 value |-> Last(RouteKey(table[firsts[n]]))]]
    IN  kept \o added

\* The registry after each of the four loops of build_default_registry.
AfterImageRoutes ==
    RegisterAll(<<>>, WithClass(image_routes, ImageConverter))

AfterVideoRoutes ==
    RegisterAll(AfterImageRoutes, WithClass(video_routes, VideoConverter))

AfterAudioRoutes ==
    RegisterAll(AfterVideoRoutes, WithClass(audio_routes, AudioConverter))

\* The module-level singleton: registry = build_default_registry()
build_default_registry ==
    RegisterAll(AfterAudioRoutes,
                WithClass(document_routes, DocumentConverter))

\* The register calls of build_default_registry, in the order of its four
\* loops.
DefaultRoutes ==
    WithClass(image_routes, ImageConverter)
        \o WithClass(video_routes, VideoConverter)
        \o WithClass(audio_routes, AudioConverter)
        \o WithClass(document_routes, DocumentConverter)

(***************************************************************************)
(* converters: the format check each converter makes before it converts    *)
(***************************************************************************)
_PILLOW_FORMATS == {jpg, jpeg, png, webp, gif, bmp, tiff}

_SUPPORTED_FORMATS == {mp3, wav, flac, aac, ogg, m4a}

\* Mutant: the document converter only knows how to read a PDF.
DocumentRoutes_pdf_only == {<<pdf, txt>>}

DocumentRoutes == {<<pdf, txt>>, <<docx, txt>>}

\* A Path inside one directory: name = stem + "." + suffix.
Path(stem, suffix) == [stem |-> stem, suffix |-> suffix]

\* BaseConverter.get_output_path: source.with_suffix("." + target.lower())
get_output_path(source, target_format) ==
    Path(source.stem, Lower(target_format))

\* TRUE when the converter's own unsupported-format check does not fire.
ConverterAccepts(cls, source, target_format) ==
    IF cls = ImageConverter THEN Lower(target_format) \in _PILLOW_FORMATS
    ELSE IF cls = AudioConverter
         THEN Lower(target_format) \in _SUPPORTED_FORMATS
    ELSE IF cls = DocumentConverter
         THEN <<Lower(source.suffix), Lower(target_format)>> \in DocumentRoutes
    ELSE TRUE

(***************************************************************************)
(* Bounds of the model                                                     *)
(***************************************************************************)
\* Longest batch handed to the progress screen.
MaxFiles == 3

\* The files a batch is drawn from and the targets it is converted to.
FileUniverse == {Path("a", heic), Path("a", png), Path("b", mp4)}

TargetFormats == {jpg, png}

Batches == UNION {[1..n -> FileUniverse] : n \in 0..MaxFiles}

\* The files the directory tree shows, on the main screen alone and in a
\* session with conversion runs, and the targets the user picks among the
\* options offered.
MainFiles ==
    {Path("a", heic), Path("a", png), Path("d", Upper(jpg)),
     Path("b", mp4), Path("c", xyz)}

SessionFiles == {Path("a", heic), Path("c", xyz)}

SessionTargets == {jpg, avi}

\* The ProgressScreens one session makes.
MaxRuns == 2

\* The clock of a session advances in ticks of half a second, up to
\* MaxTicks.
TicksPerSecond == 2

MaxTicks == 2

\* The arguments the registry is queried with.
LookupFormats ==
    {heic, jpg, png, mp4, mp3, pdf, xyz,
     Upper(heic), Capitalize(heic), Upper(jpg), Capitalize(jpg)}

(***************************************************************************)
(* State                                                                   *)
(***************************************************************************)
VARIABLES
    routes,           \* ConversionRegistry._routes
    next_route,       \* position of build_default_registry in DefaultRoutes
    call,             \* the registry lookup whose result the caller holds
    pinned,           \* an earlier get_route call and its result
    files,            \* ProgressScreen._files
    target_format,    \* ProgressScreen._target_format
    pc,               \* position of the worker in _run_conversions
    idx,              \* index in _files of the worker's loop
    current_file,     \* ProgressScreen._current_file
    converted_output, \* ProgressScreen._converted_output
    route,            \* the local route of _run_conversions
    exc,              \* the exception the loop body caught
    stats,            \* ProgressScreen._stats
    ui_call,          \* the callback call_from_thread waits for
    prompt_visible,   \* "visible" in #prompt-panel.classes
    prompt_label,     \* the file #prompt-label names
    log_panel,        \* the lines of #log-panel
    progress,         \* the position of #progress-bar
    session_log,      \* the records of the session log file
    fs,               \* the files that exist on disk
    taken,            \* history: the indices the loop took up
    convert_calls,    \* history: the convert calls and how each ended
    prompts,          \* history: the files the prompt was shown for
    decisions,        \* history: the decisions the handlers handled
    selected_files,       \* MainScreen._selected_files
    detected_media_type,  \* MainScreen._detected_media_type
    status_label,         \* the text of #status-label
    file_table,           \* the rows of #file-table
    source_format,        \* FormatSelector.source_format
    select_options,       \* the options of #format-select
    select_value,         \* the value of #format-select
    convert_disabled,     \* #convert-btn.disabled
    cleared,              \* history: the batch _clear_selection emptied last
    tree,                 \* the files #dir-tree shows
    screen_stack,         \* the app's screens above the default screen
    focus,                \* the run the variables of ProgressScreen show
    others,               \* the other runs' ProgressScreen objects
    now,                  \* the wall clock, in ticks
    log_file,             \* ProgressScreen._logger.log_file
    handler_file,         \* the file of the "file_converter" logger's handler
    log_dir               \* the other files of the log directory

regVars == <<routes, next_route, call, pinned>>

driverVars ==
    <<files, target_format, pc, idx, current_file, converted_output, route,
      exc, stats, ui_call, prompt_visible, prompt_label, log_panel, progress,
      session_log, fs, taken, convert_calls, prompts, decisions>>

mainVars ==
    <<selected_files, detected_media_type, status_label, file_table,
      source_format, select_options, select_value, convert_disabled,
      cleared, tree>>

sessionVars ==
    <<mainVars, screen_stack, focus, others, now, log_file, handler_file,
      log_dir>>

vars == <<regVars, driverVars, sessionVars>>

Idle == [op |-> "idle"]

NoCall == [fn |-> "none"]

(***************************************************************************)
(* The registry as a process: startup population, then lookups             *)
(***************************************************************************)
Built == next_route > Len(DefaultRoutes)

\* One iteration of the four loops of build_default_registry.
RegisterStep ==
    /\ ~Built
    /\ routes' = register(routes, DefaultRoutes[next_route])
    /\ next_route' = next_route + 1
    /\ UNCHANGED <<call, pinned, driverVars, sessionVars>>

IsValidStep(s, t) ==
    /\ Built /\ call.op = "idle"
    /\ call' = [op |-> "is_valid", args |-> <<s, t>>,
                result |-> is_valid(routes, s, t)]
    /\ UNCHANGED <<routes, next_route, pinned, driverVars, sessionVars>>

\* Mutant: the lookup takes the route out of the dict (pop instead of
\* subscript).
GetRouteStep_pops(s, t) ==
    /\ Built /\ call.op = "idle"
    /\ call' = [op |-> "get_route", args |-> <<s, t>>,
                result |-> get_route(routes, s, t)]
    /\ routes' = SelectSeq(routes, LAMBDA item : item.key # <<Lower(s), Lower(t)>>)
    /\ UNCHANGED <<next_route, pinned, driverVars, sessionVars>>

GetRouteStep(s, t) ==
    /\ Built /\ call.op = "idle"
    /\ call' = [op |-> "get_route", args |-> <<s, t>>,
                result |-> get_route(routes, s, t)]
    /\ UNCHANGED <<routes, next_route, pinned, driverVars, sessionVars>>

GetValidTargetsStep(s) ==
    /\ Built /\ call.op = "idle"
    /\ call' = [op |-> "get_valid_targets", args |-> <<s>>,
                result |-> get_valid_targets(routes, s)]
    /\ UNCHANGED <<routes, next_route, pinned, driverVars, sessionVars>>

GetMediaTypeStep(e) ==
    /\ Built /\ call.op = "idle"
    /\ call' = [op |-> "get_media_type", args |-> <<e>>,
                result |-> get_media_type(e)]
    /\ UNCHANGED <<routes, next_route, pinned, driverVars, sessionVars>>

IsValidCall == \E s, t \in LookupFormats : IsValidStep(s, t)

GetRouteCall == \E s, t \in LookupFormats : GetRouteStep(s, t)

GetValidTargetsCall == \E s \in LookupFormats : GetValidTargetsStep(s)

GetMediaTypeCall == \E e \in LookupFormats : GetMediaTypeStep(e)

\* The caller is done with the result of its lookup.
Return ==
    /\ call.op # "idle"
    /\ call' = Idle
    /\ UNCHANGED <<routes, next_route, pinned, driverVars, sessionVars>>

\* The caller keeps the result of a get_route call to compare it with a
\* later one.
PinRoute ==
    /\ call.op = "get_route" /\ pinned.op = "idle"
    /\ pinned' = call
    /\ call' = Idle
    /\ UNCHANGED <<routes, next_route, driverVars, sessionVars>>

\* No ProgressScreen exists.
NoRun ==
    /\ files = <<>> /\ target_format = jpg
    /\ pc = "done" /\ idx = 1
    /\ current_file = None /\ converted_output = None
    /\ route = None /\ exc = None
    /\ stats = [success |-> 0, skipped |-> 0, errors |-> 0]
    /\ ui_call = NoCall
    /\ prompt_visible = FALSE /\ prompt_label = None
    /\ log_panel = <<>> /\ progress = 0
    /\ taken = <<>> /\ convert_calls = <<>>
    /\ prompts = <<>> /\ decisions = <<>>

DriverIdle == NoRun /\ session_log = <<>> /\ fs = {}

\* A str | None attribute: <<>> is None, <<s>> is the string s.
NoFormat == <<>>

Some(s) == <<s>>

\* The place of MainScreen in the screen stack; a ProgressScreen stands
\* there by the number of its run, counted from 1.
MAIN == 0

\* MainScreen and its FormatSelector as compose and on_mount leave them.
MainIdle ==
    /\ selected_files = <<>> /\ detected_media_type = None
    /\ status_label = <<>> /\ file_table = <<>>
    /\ source_format = NoFormat
    /\ select_options = <<>> /\ select_value = NoFormat
    /\ convert_disabled = TRUE
    /\ cleared = <<>>

\* No ProgressScreen has been made and no log file opened.
SessionIdle ==
    /\ MainIdle /\ tree = {}
    /\ screen_stack = <<>> /\ focus = 0 /\ others = <<>>
    /\ now = 0 /\ log_file = None /\ handler_file = None
    /\ log_dir = <<>>

\* registry = ConversionRegistry(), before the first register call.
InitRegistry ==
    /\ routes = <<>> /\ next_route = 1
    /\ call = Idle /\ pinned = Idle
    /\ DriverIdle
    /\ SessionIdle

NextRegistry ==
    \/ RegisterStep
    \/ IsValidCall
    \/ GetRouteCall
    \/ GetValidTargetsCall
    \/ GetMediaTypeCall
    \/ Return

SpecRegistry == InitRegistry /\ [][NextRegistry]_vars

NextPinned == NextRegistry \/ PinRoute

SpecPinned == InitRegistry /\ [][NextPinned]_vars

(***************************************************************************)
(* logger.py: the name of the session log                                  *)
(***************************************************************************)
\* datetime.now().strftime("%Y%m%d_%H%M%S"): the clock cut to the second.
strftime(t) == t \div TicksPerSecond

\* log_dir / f"converter_{timestamp}.log"
LogFileName(t) == [timestamp |-> strftime(t)]

(***************************************************************************)
(* progress_screen.py: the worker thread, _run_conversions                 *)
(***************************************************************************)
LogRecord(kind, file, detail, thread) ==
    [kind |-> kind, file |-> file, detail |-> detail, thread |-> thread]

\* app.call_from_thread(fn, arg): the worker hands the callback to the UI
\* thread and is blocked until the UI thread has run it.
Posted(fn, arg) == [fn |-> fn, arg |-> arg]

WorkerRuns(at) == pc = at /\ ui_call.fn = "none"

\* for file in self._files: self._current_file = file
LoopNext ==
    /\ WorkerRuns("loop") /\ idx <= Len(files)
    /\ current_file' = files[idx]
    /\ taken' = Append(taken, idx)
    /\ pc' = "get_route"
    /\ UNCHANGED <<regVars, sessionVars,
                   files, target_format, idx, converted_output,
                   route, exc, stats, ui_call, prompt_visible, prompt_label,
                   log_panel, progress, session_log, fs, convert_calls,
                   prompts, decisions>>

\* ext = file.suffix.lstrip(".").lower()
\* route = registry.get_route(ext, self._target_format), and the lossy
\* warning; a ValueError goes to the except clause.
\* Mutant: the warning line is written for every route, lossy or not.
Resolve_always_warns ==
    /\ WorkerRuns("get_route")
    /\ LET file == files[idx]
           r    == get_route(routes, Lower(file.suffix), target_format)
       IN  IF r.raised
           THEN /\ exc' = r
                /\ pc' = "except"
                /\ UNCHANGED <<route, ui_call>>
           ELSE /\ route' = r.value
                /\ pc' = "convert"
                /\ ui_call' = Posted("write_line", <<"lossy", file>>)
                /\ UNCHANGED exc
    /\ UNCHANGED <<regVars, sessionVars,
                   files, target_format, idx, current_file,
                   converted_output, stats, prompt_visible, prompt_label,
                   log_panel, progress, session_log, fs, taken, convert_calls,
                   prompts, decisions>>

Resolve ==
    /\ WorkerRuns("get_route")
    /\ LET file == files[idx]
           r    == get_route(routes, Lower(file.suffix), target_format)
       IN  IF r.raised
           THEN /\ exc' = r
                /\ pc' = "except"
                /\ UNCHANGED <<route, ui_call>>
           ELSE /\ route' = r.value
                /\ pc' = "convert"
                /\ ui_call' = IF r.value.lossy
                              THEN Posted("write_line", <<"lossy", file>>)
                              ELSE ui_call
                /\ UNCHANGED exc
    /\ UNCHANGED <<regVars, sessionVars,
                   files, target_format, idx, current_file,
                   converted_output, stats, prompt_visible, prompt_label,
                   log_panel, progress, session_log, fs, taken, convert_calls,
                   prompts, decisions>>

\* Mutant: a converted file is counted as skipped.
ConvertOk_counts_skipped ==
    /\ WorkerRuns("convert")
    /\ LET file   == files[idx]
           output == get_output_path(file, target_format)
       IN  /\ ConverterAccepts(route.converter_class, file, target_format)
           /\ file \in fs
           /\ fs' = fs \cup {output}
           /\ converted_output' = output
           /\ stats' = [stats EXCEPT !.skipped = @ + 1]
           /\ ui_call' = Posted("write_line", <<"ok", file, output>>)
           /\ convert_calls' = Append(convert_calls, <<idx, file, "ok">>)
    /\ pc' = "show_prompt"
    /\ UNCHANGED <<regVars, sessionVars,
                   files, target_format, idx, current_file, route,
                   exc, prompt_visible, prompt_label, log_panel, progress,
                   session_log, taken, prompts, decisions>>

\* Mutant: the result of convert is not kept in _converted_output.
ConvertOk_stale_output ==
    /\ WorkerRuns("convert")
    /\ LET file   == files[idx]
           output == get_output_path(file, target_format)
       IN  /\ ConverterAccepts(route.converter_class, file, target_format)
           /\ file \in fs
           /\ fs' = fs \cup {output}
           /\ stats' = [stats EXCEPT !.success = @ + 1]
           /\ ui_call' = Posted("write_line", <<"ok", file, output>>)
           /\ convert_calls' = Append(convert_calls, <<idx, file, "ok">>)
    /\ pc' = "show_prompt"
    /\ UNCHANGED <<regVars, sessionVars,
                   files, target_format, idx, current_file, converted_output,
                   route, exc, prompt_visible, prompt_label, log_panel,
                   progress, session_log, taken, prompts, decisions>>

\* output = converter.convert(file, self._target_format) returns: the
\* output is written, _converted_output and the statistics are set and
\* the success line is handed to the log panel.
ConvertOk ==
    /\ WorkerRuns("convert")
    /\ LET file   == files[idx]
           output == get_output_path(file, target_format)
       IN  /\ ConverterAccepts(route.converter_class, file, target_format)
           /\ file \in fs
           /\ fs' = fs \cup {output}
           /\ converted_output' = output
           /\ stats' = [stats EXCEPT !.success = @ + 1]
           /\ ui_call' = Posted("write_line", <<"ok", file, output>>)
           /\ convert_calls' = Append(convert_calls, <<idx, file, "ok">>)
    /\ pc' = "show_prompt"
    /\ UNCHANGED <<regVars, sessionVars,
                   files, target_format, idx, current_file, route,
                   exc, prompt_visible, prompt_label, log_panel, progress,
                   session_log, taken, prompts, decisions>>

\* Mutant: the exception of convert is not caught by the loop body and
\* ends the worker.
ConvertFails_uncaught ==
    /\ WorkerRuns("convert")
    /\ convert_calls' = Append(convert_calls, <<idx, files[idx], "raised">>)
    /\ pc' = "crashed"
    /\ UNCHANGED <<regVars, sessionVars,
                   files, target_format, idx, current_file,
                   converted_output, route, exc, stats, ui_call,
                   prompt_visible, prompt_label, log_panel, progress,
                   session_log, fs, taken, prompts, decisions>>

\* converter.convert raises: the converter's own format check, a missing
\* source, or any failure of the codec library.
ConvertFails ==
    /\ WorkerRuns("convert")
    /\ LET file == files[idx]
       IN  /\ exc' =
                IF ~ConverterAccepts(route.converter_class, file,
                                     target_format)
                THEN [raised |-> TRUE, exc |-> "ValueError",
                      msg |-> <<"Unsupported", target_format>>]
                ELSE [raised |-> TRUE, exc |-> "OSError",
                      msg |-> <<"convert", file>>]
           /\ convert_calls' = Append(convert_calls, <<idx, file, "raised">>)
    /\ pc' = "except"
    /\ UNCHANGED <<regVars, sessionVars,
                   files, target_format, idx, current_file,
                   converted_output, route, stats, ui_call, prompt_visible,
                   prompt_label, log_panel, progress, session_log, fs, taken,
                   prompts, decisions>>

\* self.app.call_from_thread(self._show_keep_prompt, file)
ShowPrompt ==
    /\ WorkerRuns("show_prompt")
    /\ ui_call' = Posted("_show_keep_prompt", <<files[idx]>>)
    /\ pc' = "wait_prompt"
    /\ UNCHANGED <<regVars, sessionVars,
                   files, target_format, idx, current_file,
                   converted_output, route, exc, stats, prompt_visible,
                   prompt_label, log_panel, progress, session_log, fs, taken,
                   convert_calls, prompts, decisions>>

\* Mutant: _wait_for_prompt returns without looking at the panel.
WaitForPrompt_no_wait ==
    /\ WorkerRuns("wait_prompt")
    /\ pc' = "advance"
    /\ UNCHANGED <<regVars, sessionVars,
                   files, target_format, idx, current_file,
                   converted_output, route, exc, stats, ui_call,
                   prompt_visible, prompt_label, log_panel, progress,
                   session_log, fs, taken, convert_calls, prompts, decisions>>

\* Mutant: the loop condition of _wait_for_prompt is inverted
\* (while "visible" not in prompt_panel.classes).
WaitForPrompt_inverted ==
    /\ WorkerRuns("wait_prompt")
    /\ prompt_visible
    /\ pc' = "advance"
    /\ UNCHANGED <<regVars, sessionVars,
                   files, target_format, idx, current_file,
                   converted_output, route, exc, stats, ui_call,
                   prompt_visible, prompt_label, log_panel, progress,
                   session_log, fs, taken, convert_calls, prompts, decisions>>

\* Mutant: _wait_for_prompt keeps sleeping after the panel is dismissed.
WaitForPrompt_never_returns ==
    /\ WorkerRuns("wait_prompt")
    /\ ~prompt_visible
    /\ UNCHANGED vars

\* _wait_for_prompt: the poll that finds the panel no longer visible.
WaitForPrompt ==
    /\ WorkerRuns("wait_prompt")
    /\ ~prompt_visible
    /\ pc' = "advance"
    /\ UNCHANGED <<regVars, sessionVars,
                   files, target_format, idx, current_file,
                   converted_output, route, exc, stats, ui_call,
                   prompt_visible, prompt_label, log_panel, progress,
                   session_log, fs, taken, convert_calls, prompts, decisions>>

\* Mutant: the except clause does not count the error.
Except_uncounted ==
    /\ WorkerRuns("except")
    /\ session_log' =
          Append(session_log, LogRecord("ERROR", files[idx], exc, "worker"))
    /\ ui_call' = Posted("write_line", <<"error", files[idx]>>)
    /\ pc' = "advance"
    /\ UNCHANGED <<regVars, sessionVars,
                   files, target_format, idx, current_file,
                   converted_output, route, exc, stats, prompt_visible,
                   prompt_label, log_panel, progress, fs, taken,
                   convert_calls, prompts, decisions>>

\* except Exception as exc: count it, log it, show it.
Except ==
    /\ WorkerRuns("except")
    /\ stats' = [stats EXCEPT !.errors = @ + 1]
    /\ session_log' =
          Append(session_log, LogRecord("ERROR", files[idx], exc, "worker"))
    /\ ui_call' = Posted("write_line", <<"error", files[idx]>>)
    /\ pc' = "advance"
    /\ UNCHANGED <<regVars, sessionVars,
                   files, target_format, idx, current_file,
                   converted_output, route, exc, prompt_visible, prompt_label,
                   log_panel, progress, fs, taken, convert_calls, prompts,
                   decisions>>

\* self.app.call_from_thread(progress.advance, 1), the last statement of
\* the loop body.
Advance ==
    /\ WorkerRuns("advance")
    /\ ui_call' = Posted("advance", <<1>>)
    /\ idx' = idx + 1
    /\ pc' = "loop"
    /\ UNCHANGED <<regVars, sessionVars,
                   files, target_format, current_file,
                   converted_output, route, exc, stats, prompt_visible,
                   prompt_label, log_panel, progress, session_log, fs, taken,
                   convert_calls, prompts, decisions>>

\* After the loop: self._logger.log_summary(self._stats), then _show_done.
Summary ==
    /\ WorkerRuns("loop") /\ idx > Len(files)
    /\ session_log' =
          Append(session_log, LogRecord("SUMMARY", None, stats, "worker"))
    /\ ui_call' = Posted("_show_done", <<>>)
    /\ pc' = "done"
    /\ UNCHANGED <<regVars, sessionVars,
                   files, target_format, idx, current_file,
                   converted_output, route, exc, stats, prompt_visible,
                   prompt_label, log_panel, progress, fs, taken,
                   convert_calls, prompts, decisions>>

(***************************************************************************)
(* progress_screen.py: the UI thread                                       *)
(***************************************************************************)
\* The UI thread runs the callback the worker is blocked on:
\* log.write_line, _show_keep_prompt, progress.advance or _show_done.
RunCallback ==
    /\ ui_call.fn # "none"
    /\ ui_call' = NoCall
    /\ log_panel' =
          IF ui_call.fn = "write_line" THEN Append(log_panel, ui_call.arg)
          ELSE IF ui_call.fn = "_show_done"
               THEN Append(log_panel, <<"done", stats.success, stats.errors>>)
          ELSE log_panel
    /\ prompt_visible' =
          IF ui_call.fn = "_show_keep_prompt" THEN TRUE ELSE prompt_visible
    /\ prompt_label' =
          IF ui_call.fn = "_show_keep_prompt" THEN ui_call.arg[1]
          ELSE prompt_label
    /\ prompts' =
          IF ui_call.fn = "_show_keep_prompt"
          THEN Append(prompts, ui_call.arg[1])
          ELSE prompts
    /\ progress' =
          IF ui_call.fn = "advance" THEN progress + ui_call.arg[1]
          ELSE progress
    /\ UNCHANGED <<regVars, sessionVars,
                   files, target_format, pc, idx, current_file,
                   converted_output, route, exc, stats, session_log, fs,
                   taken, convert_calls, decisions>>

\* ConversionLogger.log_conversion, guarded as in on_keep and on_delete.
LogConversion(log, kept) ==
    IF current_file # None /\ converted_output # None
    THEN Append(log, LogRecord("SUCCESS", current_file,
                               [destination |-> converted_output,
                                original_kept |-> kept], "ui"))
    ELSE log

\* Mutant: on_keep unlinks the original as on_delete does.
OnKeep_removes_original ==
    /\ prompt_visible
    /\ fs' = fs \ {current_file}
    /\ session_log' = LogConversion(session_log, TRUE)
    /\ prompt_visible' = FALSE
    /\ decisions' = Append(decisions, <<"keep", current_file, "kept">>)
    /\ UNCHANGED <<regVars, sessionVars,
                   files, target_format, pc, idx, current_file,
                   converted_output, route, exc, stats, ui_call, prompt_label,
                   log_panel, progress, taken, convert_calls, prompts>>

\* on_keep: the keep button of the visible prompt is pressed.
OnKeep ==
    /\ prompt_visible
    /\ session_log' = LogConversion(session_log, TRUE)
    /\ prompt_visible' = FALSE
    /\ decisions' = Append(decisions, <<"keep", current_file, "kept">>)
    /\ UNCHANGED <<regVars, sessionVars,
                   files, target_format, pc, idx, current_file,
                   converted_output, route, exc, stats, ui_call, prompt_label,
                   log_panel, progress, fs, taken, convert_calls, prompts>>

\* on_delete when self._current_file.unlink() succeeds.
OnDeleteOk ==
    /\ prompt_visible
    /\ current_file # None /\ current_file \in fs
    /\ fs' = fs \ {current_file}
    /\ session_log' =
          LogConversion(
              Append(session_log,
                     LogRecord("DELETED", current_file, None, "ui")),
              FALSE)
    /\ prompt_visible' = FALSE
    /\ decisions' = Append(decisions, <<"delete", current_file, "removed">>)
    /\ UNCHANGED <<regVars, sessionVars,
                   files, target_format, pc, idx, current_file,
                   converted_output, route, exc, stats, ui_call, prompt_label,
                   log_panel, progress, taken, convert_calls, prompts>>

\* Mutant: the OSError of unlink is swallowed (except OSError: pass).
OnDeleteFails_unlogged ==
    /\ prompt_visible
    /\ current_file # None
    /\ session_log' = LogConversion(session_log, FALSE)
    /\ prompt_visible' = FALSE
    /\ decisions' = Append(decisions, <<"delete", current_file, "failed">>)
    /\ UNCHANGED <<regVars, sessionVars,
                   files, target_format, pc, idx, current_file,
                   converted_output, route, exc, stats, ui_call, prompt_label,
                   log_panel, progress, fs, taken, convert_calls, prompts>>

\* on_delete when unlink raises OSError: the file is gone already, or the
\* file system refuses the removal.
OnDeleteFails ==
    /\ prompt_visible
    /\ current_file # None
    /\ session_log' =
          LogConversion(
              Append(session_log,
                     LogRecord("ERROR", current_file,
                               [raised |-> TRUE, exc |-> "OSError",
                                msg |-> <<"unlink", current_file>>], "ui")),
              FALSE)
    /\ prompt_visible' = FALSE
    /\ decisions' = Append(decisions, <<"delete", current_file, "failed">>)
    /\ UNCHANGED <<regVars, sessionVars,
                   files, target_format, pc, idx, current_file,
                   converted_output, route, exc, stats, ui_call, prompt_label,
                   log_panel, progress, fs, taken, convert_calls, prompts>>

(***************************************************************************)
(* A conversion run: ProgressScreen(files, target_format) is mounted       *)
(***************************************************************************)
SeqRange(seq) == {seq[i] : i \in 1..Len(seq)}

\* ProgressScreen.__init__ and on_mount: the session log holds the banner
\* ConversionLogger.__init__ wrote, the worker is about to enter its loop,
\* and the selected files exist.
Init ==
    /\ routes = build_default_registry
    /\ next_route = Len(DefaultRoutes) + 1
    /\ call = Idle /\ pinned = Idle
    /\ files \in Batches
    /\ target_format \in TargetFormats
    /\ pc = "loop" /\ idx = 1
    /\ current_file = None /\ converted_output = None
    /\ route = None /\ exc = None
    /\ stats = [success |-> 0, skipped |-> 0, errors |-> 0]
    /\ ui_call = NoCall
    /\ prompt_visible = FALSE /\ prompt_label = None
    /\ log_panel = <<>> /\ progress = 0
    /\ session_log = <<LogRecord("START", None, None, "ui")>>
    /\ fs = SeqRange(files)
    /\ taken = <<>> /\ convert_calls = <<>>
    /\ prompts = <<>> /\ decisions = <<>>
    /\ MainIdle /\ tree = {}
    /\ screen_stack = <<MAIN, 1>> /\ focus = 1 /\ others = <<>>
    /\ now = 0
    /\ log_file = LogFileName(0) /\ handler_file = LogFileName(0)
    /\ log_dir = <<>>

Worker ==
    \/ LoopNext
    \/ Resolve
    \/ ConvertOk
    \/ ConvertFails
    \/ ShowPrompt
    \/ WaitForPrompt
    \/ Except
    \/ Advance
    \/ Summary

UI ==
    \/ RunCallback
    \/ OnKeep
    \/ OnDeleteOk
    \/ OnDeleteFails

Next == Worker \/ UI

Spec == Init /\ [][Next]_vars

\* The same run under fair scheduling: the worker thread gets to run
\* whenever it can take a step (its wait is a poll every 0.05 s), the UI
\* thread runs the callback the worker posted, and the user presses one of
\* the two buttons of a prompt that stays on the screen.
Answer == OnKeep \/ OnDeleteOk \/ OnDeleteFails

SpecFair ==
    /\ Spec
    /\ WF_vars(Worker)
    /\ WF_vars(RunCallback)
    /\ WF_vars(Answer)

(***************************************************************************)
(* main_screen.py, format_selector.py: staging a batch                     *)
(***************************************************************************)
\* The attributes of MainScreen and its widgets, as one value the
\* handlers' helper methods take and return.
Main ==
    [selected_files |-> selected_files,
     detected_media_type |-> detected_media_type,
     status_label |-> status_label,
     file_table |-> file_table,
     source_format |-> source_format,
     select_options |-> select_options,
     select_value |-> select_value,
     convert_disabled |-> convert_disabled]

SetMain(m) ==
    /\ selected_files' = m.selected_files
    /\ detected_media_type' = m.detected_media_type
    /\ status_label' = m.status_label
    /\ file_table' = m.file_table
    /\ source_format' = m.source_format
    /\ select_options' = m.select_options
    /\ select_value' = m.select_value
    /\ convert_disabled' = m.convert_disabled

\* MainScreen._set_status
_set_status(m, message) == [m EXCEPT !.status_label = message]

\* MainScreen.on_format_changed, the handler of Select.Changed.
on_format_changed(m) ==
    [m EXCEPT !.convert_disabled =
        (m.selected_files = <<>> \/ m.select_value = NoFormat)]

\* Select.set_options: the options are replaced and the value goes back
\* to blank, which posts Select.Changed if it was not blank before.
set_options(m, options) ==
    LET blank == [m EXCEPT !.select_options = options,
                           !.select_value = NoFormat]
    IN  IF m.select_value # NoFormat THEN on_format_changed(blank)
        ELSE blank

\* FormatSelector.watch_source_format
watch_source_format(m, fmt) ==
    IF fmt = NoFormat THEN set_options(m, <<>>)
    ELSE set_options(m, get_valid_targets(routes, fmt[1]))

\* selector.source_format = fmt: the reactive attribute calls its watcher
\* only when the value changes.
SetSourceFormat(m, fmt) ==
    IF m.source_format = fmt THEN m
    ELSE watch_source_format([m EXCEPT !.source_format = fmt], fmt)

\* Mutant: _clear_selection forgets the staged files.
_clear_selection_keeps_files(m) ==
    [m EXCEPT !.detected_media_type = None,
              !.file_table = <<>>]

\* MainScreen._clear_selection
_clear_selection(m) ==
    [m EXCEPT !.selected_files = <<>>,
              !.detected_media_type = None,
              !.file_table = <<>>]

\* MainScreen._refresh_state
_refresh_state(m) ==
    IF m.selected_files = <<>>
    THEN [SetSourceFormat(m, NoFormat) EXCEPT
              !.detected_media_type = None,
              !.convert_disabled = TRUE]
    ELSE SetSourceFormat(m, Some(Lower(m.selected_files[1].suffix)))

\* MainScreen._replace_selection. exists tells whether path.stat() finds
\* the file; raised tells whether the handler was left by its exception.
_replace_selection(m, path, exists) ==
    LET extension  == Lower(path.suffix)
        media_type == get_media_type(extension)
        clear      == /\ m.detected_media_type # None
                      /\ media_type # m.detected_media_type
        kept       == IF clear THEN _clear_selection(m) ELSE m
        staged     == [kept EXCEPT
                          !.detected_media_type = media_type,
                          !.selected_files = Append(@, path)]
        listed     == [staged EXCEPT !.file_table = Append(@, path)]
    IN  IF media_type = None
        THEN [main |-> _set_status(m, <<"Unsupported file type", extension>>),
              cleared |-> FALSE, raised |-> FALSE]
        ELSE IF InSeq(kept.selected_files, path)
        THEN [main |-> _set_status(kept, <<"Already added", path>>),
              cleared |-> clear, raised |-> FALSE]
        ELSE IF ~exists
        THEN [main |-> staged, cleared |-> clear, raised |-> TRUE]
        ELSE [main |-> _set_status(_refresh_state(listed), <<>>),
              cleared |-> clear, raised |-> FALSE]

\* The screen the user sees and acts on.
OnTop(screen) ==
    /\ screen_stack # <<>>
    /\ screen_stack[Len(screen_stack)] = screen

\* MainScreen.on_file_selected: a file of the directory tree is clicked.
\* An exception that leaves the handler ends the app.
on_file_selected(path) ==
    /\ OnTop(MAIN)
    /\ LET r == _replace_selection(Main, path, path \in fs)
       IN  /\ SetMain(r.main)
           /\ cleared' = IF r.cleared THEN selected_files ELSE cleared
           /\ screen_stack' = IF r.raised THEN <<>> ELSE screen_stack
    /\ UNCHANGED <<regVars, driverVars, tree, focus, others, now, log_file,
                   handler_file, log_dir>>

\* The user picks one of the options of #format-select; Select.Changed
\* runs on_format_changed.
SelectTarget(fmt) ==
    /\ OnTop(MAIN)
    /\ InSeq(select_options, fmt)
    /\ select_value # Some(fmt)
    /\ SetMain(on_format_changed([Main EXCEPT !.select_value = Some(fmt)]))
    /\ UNCHANGED <<regVars, driverVars, cleared, tree, screen_stack, focus,
                   others, now, log_file, handler_file, log_dir>>

FileSelected == \E path \in tree : on_file_selected(path)

TargetSelected == \E fmt \in SessionTargets : SelectTarget(fmt)

\* FileConverterApp.on_mount has pushed MainScreen, whose directory tree
\* shows the files of shown, which exist.
Started(shown) ==
    /\ routes = build_default_registry
    /\ next_route = Len(DefaultRoutes) + 1
    /\ call = Idle /\ pinned = Idle
    /\ NoRun
    /\ session_log = <<>>
    /\ fs = shown /\ tree = shown
    /\ MainIdle
    /\ screen_stack = <<MAIN>> /\ focus = 0 /\ others = <<>>
    /\ now = 0 /\ log_file = None /\ handler_file = None
    /\ log_dir = <<>>

InitMain == Started(MainFiles)

NextMain == FileSelected \/ TargetSelected

SpecMain == InitMain /\ [][NextMain]_vars

\* C17: get_media_type answers with the domain the table gives for an
\* extension of the table (jpg is an image, mp4 a video format), whatever
\* the case it is written in, and with None for any other; the answer is
\* always a MediaType or None, never an exception, and the registry is as
\* it was.
C17_MediaTypeOrAbsent ==
    /\ call.op = "get_media_type" =>
          LET e == call.args[1]
              r == call.result
          IN  /\ r \in MediaType \cup {None}
              /\ Lower(e) \in KnownExtensions
                    => r = EXTENSION_MEDIA_TYPE[Lower(e)] /\ r # None
              /\ Lower(e) \notin KnownExtensions => r = None
              /\ e = jpg => r = IMAGE
              /\ e = mp4 => r = VIDEO
              /\ e = mp3 => r = AUDIO
              /\ e = pdf => r = DOCUMENT
              /\ e = xyz => r = None
              /\ routes = build_default_registry
    /\ \A e \in KnownExtensions :
          get_media_type(e) = EXTENSION_MEDIA_TYPE[e]

\* C18: every route the registry holds, at every stage of
\* build_default_registry, names a converter class whose own format check
\* passes for the route's source extension and target format; and the
\* DocumentConverter's check passes for pdf to txt and docx to txt, in any
\* case, and fires for every other pair of formats.
C18_ConvertersInSync ==
    /\ \A i \in 1..Len(routes) :
          LET r == routes[i].value
          IN  ConverterAccepts(r.converter_class, Path("a", r.source_format),
                               r.target_format)
    /\ \A s, t \in KnownExtensions \cup {xyz, Upper(pdf), Upper(txt)} :
          ConverterAccepts(DocumentConverter, Path("a", s), t)
            <=> /\ Lower(s) \in {pdf, docx}
                /\ Lower(t) = txt

\* The registry is complete and holds the two document routes.
C18_Witness ==
    /\ Built
    /\ routes = build_default_registry
    /\ \E i, j \in 1..Len(routes) :
          /\ routes[i].key = <<pdf, txt>>
          /\ routes[j].key = <<docx, txt>>
          /\ routes[i].value.converter_class = DocumentConverter
          /\ routes[j].value.converter_class = DocumentConverter

C17_Witness ==
    /\ call.op = "get_media_type"
    /\ call.args = <<xyz>>
    /\ call.result = None

(***************************************************************************)
(* A session: the main screen, the progress screens it pushes and their    *)
(* workers                                                                 *)
(***************************************************************************)
\* The ProgressScreen object the run variables show, its logger and its
\* worker's position included.
RunState ==
    [files |-> files, target_format |-> target_format, pc |-> pc,
     idx |-> idx, current_file |-> current_file,
     converted_output |-> converted_output, route |-> route, exc |-> exc,
     stats |-> stats, ui_call |-> ui_call,
     prompt_visible |-> prompt_visible, prompt_label |-> prompt_label,
     log_panel |-> log_panel, progress |-> progress, log_file |-> log_file,
     taken |-> taken, convert_calls |-> convert_calls, prompts |-> prompts,
     decisions |-> decisions]

LoadRun(r) ==
    /\ files' = r.files /\ target_format' = r.target_format
    /\ pc' = r.pc /\ idx' = r.idx
    /\ current_file' = r.current_file
    /\ converted_output' = r.converted_output
    /\ route' = r.route /\ exc' = r.exc
    /\ stats' = r.stats /\ ui_call' = r.ui_call
    /\ prompt_visible' = r.prompt_visible
    /\ prompt_label' = r.prompt_label
    /\ log_panel' = r.log_panel /\ progress' = r.progress
    /\ log_file' = r.log_file
    /\ taken' = r.taken /\ convert_calls' = r.convert_calls
    /\ prompts' = r.prompts /\ decisions' = r.decisions

\* ProgressScreen.__init__(files, target_format) up to the logger, and
\* on_mount: the worker is about to enter its loop.
NewRun(batch, target, name) ==
    [files |-> batch, target_format |-> target, pc |-> "loop", idx |-> 1,
     current_file |-> None, converted_output |-> None, route |-> None,
     exc |-> None, stats |-> [success |-> 0, skipped |-> 0, errors |-> 0],
     ui_call |-> NoCall, prompt_visible |-> FALSE, prompt_label |-> None,
     log_panel |-> <<>>, progress |-> 0, log_file |-> name,
     taken |-> <<>>, convert_calls |-> <<>>, prompts |-> <<>>,
     decisions |-> <<>>]

\* The ProgressScreens made so far, the one in the run variables included.
Runs == DOMAIN others \cup (IF focus = 0 THEN {} ELSE {focus})

RunOf(r) == IF r = focus THEN RunState ELSE others[r]

\* The run variables are put away under the number of their run.
Shelved ==
    [r \in Runs |-> RunOf(r)]

\* The files of the log directory once the handler of the shared logger
\* is taken off its file (self.logger.handlers.clear()).
Detached ==
    IF handler_file = None THEN log_dir
    ELSE [name \in DOMAIN log_dir \cup {handler_file} |->
            IF name = handler_file THEN session_log ELSE log_dir[name]]

\* MainScreen.on_convert_pressed: the enabled Convert button is pressed.
\* ProgressScreen.__init__ makes a ConversionLogger, which names its file
\* by the clock, puts its handler on the shared "file_converter" logger in
\* place of the handlers that were there, and writes the banner;
\* push_screen mounts the screen and on_mount starts its worker.
on_convert_pressed ==
    /\ OnTop(MAIN) /\ ~convert_disabled
    /\ select_value # NoFormat /\ selected_files # <<>>
    /\ Cardinality(Runs) < MaxRuns
    /\ LET id   == Cardinality(Runs) + 1
           name == LogFileName(now)
           dir  == Detached
       IN  /\ others' = Shelved
           /\ focus' = id
           /\ LoadRun(NewRun(selected_files, select_value[1], name))
           /\ handler_file' = name
           /\ session_log' =
                 Append(IF name \in DOMAIN dir THEN dir[name] ELSE <<>>,
                        LogRecord("START", None, None, "ui"))
           /\ log_dir' = [n \in DOMAIN dir \ {name} |-> dir[n]]
           /\ screen_stack' = Append(screen_stack, id)
    /\ UNCHANGED <<regVars, mainVars, now, fs>>

\* Escape on a ProgressScreen: app.pop_screen. The screen's worker thread
\* is left as it is.
pop_screen ==
    /\ screen_stack # <<>>
    /\ ~OnTop(MAIN)
    /\ screen_stack' = SubSeq(screen_stack, 1, Len(screen_stack) - 1)
    /\ UNCHANGED <<regVars, driverVars, mainVars, focus, others, now,
                   log_file, handler_file, log_dir>>

\* The run variables turn to another ProgressScreen: its worker thread or
\* its callbacks are the next to run.
Switch(r) ==
    /\ r \in DOMAIN others
    /\ others' = [x \in Runs \ {r} |-> RunOf(x)]
    /\ focus' = r
    /\ LoadRun(others[r])
    /\ UNCHANGED <<regVars, mainVars, screen_stack, now, handler_file,
                   log_dir, session_log, fs>>

SwitchRun == \E r \in 1..MaxRuns : Switch(r)

\* Time passes.
Tick ==
    /\ now < MaxTicks
    /\ now' = now + 1
    /\ UNCHANGED <<regVars, driverVars, mainVars, screen_stack, focus,
                   others, log_file, handler_file, log_dir>>

\* The buttons of a prompt can be pressed on the screen that is shown.
Decide == OnTop(focus) /\ (OnKeep \/ OnDeleteOk \/ OnDeleteFails)

NextSession ==
    \/ FileSelected
    \/ TargetSelected
    \/ on_convert_pressed
    \/ pop_screen
    \/ SwitchRun
    \/ Tick
    \/ Worker
    \/ RunCallback
    \/ Decide

InitSession == Started(SessionFiles)

SpecSession == InitSession /\ [][NextSession]_vars

\* Staging and starting batches: the main screen over the files of
\* MainFiles and the targets of TargetFormats, the Convert button and
\* Escape; the workers of the started runs have not yet taken a step.
TargetPicked == \E fmt \in TargetFormats : SelectTarget(fmt)

NextStart ==
    \/ FileSelected
    \/ TargetPicked
    \/ on_convert_pressed
    \/ pop_screen

SpecStart == InitMain /\ [][NextStart]_vars

\* A worker thread is alive from on_mount until _run_conversions returns.
Alive(r) == r.pc # "done" \/ r.ui_call.fn # "none"

AliveRuns == {r \in Runs : Alive(RunOf(r))}

\* C15: at most one batch worker is alive at any moment of a session,
\* whatever the user does, leaving a progress screen with Escape and
\* pressing Convert again included.
C15_AtMostOneBatchExecuting == Cardinality(AliveRuns) <= 1

\* The records of the log file of that name.
FileOf(name) ==
    IF name = handler_file THEN session_log
    ELSE IF name \in DOMAIN log_dir THEN log_dir[name]
    ELSE <<>>

KindCount(log, kind) ==
    Cardinality({i \in 1..Len(log) : log[i].kind = kind})

OutcomeCount(r, outcome) ==
    Cardinality({i \in 1..Len(r.decisions) : r.decisions[i][3] = outcome})

\* The log file of run r holds the records r has written and no others:
\* its banner, an Error record for each error the worker counted and for
\* each removal that failed, a Deleted record for each removal, a Success
\* entry for each decision, and its Summary once the worker is past it.
HoldsOwnRecords(r) ==
    LET log == FileOf(r.log_file)
    IN  /\ KindCount(log, "START") = 1
        /\ KindCount(log, "ERROR")
              = r.stats.errors + OutcomeCount(r, "failed")
        /\ KindCount(log, "DELETED") = OutcomeCount(r, "removed")
        /\ KindCount(log, "SUCCESS") = Len(r.decisions)
        /\ KindCount(log, "SUMMARY") = (IF r.pc = "done" THEN 1 ELSE 0)

\* C16: every run has a log file of its own: the names of the log files
\* of two runs differ, and the file of a run holds the records of that
\* run and of no other.
C16_OwnLogFilePerRun ==
    /\ \A r1, r2 \in Runs :
          r1 # r2 => RunOf(r1).log_file # RunOf(r2).log_file
    /\ \A r \in Runs : HoldsOwnRecords(RunOf(r))

\* The threads whose next step writes a record to the shared logger: the
\* worker of a run that is about to log an error or the summary, and the
\* UI thread while a prompt is on the screen on top.
WritingWorkers ==
    {r \in Runs :
        LET run == RunOf(r)
        IN  /\ run.ui_call.fn = "none"
            /\ \/ run.pc = "except"
               \/ run.pc = "loop" /\ run.idx > Len(run.files)}

UIWrites == focus # 0 /\ OnTop(focus) /\ prompt_visible

\* C22: the records of a run, whatever the file they went to, were all
\* written by a batch worker thread, and at no moment is more than one
\* thread about to write to the session log.
C22_WorkerOnlyWritesLog ==
    /\ \A name \in DOMAIN Detached :
          \A i \in 1..Len(Detached[name]) :
              Detached[name][i].kind # "START"
                  => Detached[name][i].thread = "worker"
    /\ Cardinality(WritingWorkers) + (IF UIWrites THEN 1 ELSE 0) <= 1

(***************************************************************************)
(* Properties of the main screen                                           *)
(***************************************************************************)
DomainOf(path) == get_media_type(Lower(path.suffix))

\* The staged batch: known files of one domain, which is
\* _detected_media_type, and no path twice.
StagedOneDomain ==
    /\ \A i \in 1..Len(selected_files) :
          /\ DomainOf(selected_files[i]) # None
          /\ DomainOf(selected_files[i]) = detected_media_type
    /\ \A i, j \in 1..Len(selected_files) :
          i # j => selected_files[i] # selected_files[j]

\* A step that changes the batch adds one file: to the batch as it was,
\* or, when the file is of another domain than the batch, to the emptied
\* batch.
SelectionStep ==
    selected_files' # selected_files =>
        /\ selected_files' # <<>>
        /\ LET path == selected_files'[Len(selected_files')]
           IN  IF /\ selected_files # <<>>
                  /\ DomainOf(path) # detected_media_type
               THEN selected_files' = <<path>>
               ELSE selected_files' = Append(selected_files, path)

\* C14: after any sequence of selections the staged files are of one
\* domain, equal to _detected_media_type when the batch is not empty, a
\* file of an unknown extension is never staged, no path is staged twice,
\* and selecting a file of another domain empties the batch before the
\* file is added.
C14_StagedBatchOneDomain == []StagedOneDomain /\ [][SelectionStep]_vars

C14_Witness ==
    /\ cleared = <<Path("a", heic), Path("d", Upper(jpg))>>
    /\ selected_files = <<Path("b", mp4)>>
    /\ detected_media_type = VIDEO
    /\ status_label = <<"Unsupported file type", xyz>>

\* The batch of a started run and the path convert writes for its i-th
\* file.
OutputOf(run, i) == get_output_path(run.files[i], run.target_format)

\* C24: the target of a started batch is a registered target for every
\* file of the batch, so that get_route succeeds for each of them.
C24_TargetValidForEveryFile ==
    \A r \in Runs :
        LET run == RunOf(r)
        IN  \A i \in 1..Len(run.files) :
                is_valid(routes, Lower(run.files[i].suffix),
                         run.target_format)

\* C25: in a started batch the output paths of two files differ and no
\* output path is the path of a file of the batch.
C25_OutputsOverwriteNothing ==
    \A r \in Runs :
        LET run == RunOf(r)
        IN  \A i, j \in 1..Len(run.files) :
                /\ i # j => OutputOf(run, i) # OutputOf(run, j)
                /\ OutputOf(run, i) # run.files[j]

(***************************************************************************)
(* Properties of the conversion driver                                     *)
(***************************************************************************)
\* The file has a registered route to the target of the run.
Routable(file) == is_valid(routes, Lower(file.suffix), target_format)

NoRouteCount ==
    Cardinality({i \in 1..Len(files) : ~Routable(files[i])})

CountKind(kind) ==
    Cardinality({i \in 1..Len(session_log) : session_log[i].kind = kind})

WorkerErrors ==
    Cardinality({i \in 1..Len(session_log) :
                    /\ session_log[i].kind = "ERROR"
                    /\ session_log[i].thread = "worker"})

FailedRemovals ==
    Cardinality({i \in 1..Len(decisions) : decisions[i][3] = "failed"})

OkCalls == SelectSeq(convert_calls, LAMBDA c : c[3] = "ok")

\* The worker has left _run_conversions and the UI thread has run its
\* last callback.
Finished == pc = "done" /\ ui_call.fn = "none"

AllConversionsSucceeded ==
    \A i \in 1..Len(convert_calls) : convert_calls[i][3] = "ok"

SummaryIs(success, errors) ==
    /\ CountKind("SUMMARY") = 1
    /\ \A i \in 1..Len(session_log) :
          session_log[i].kind = "SUMMARY"
              => /\ session_log[i].detail.success = success
                 /\ session_log[i].detail.errors = errors

NeverPromptsUnroutable ==
    /\ \A i \in 1..Len(prompts) : Routable(prompts[i])
    /\ prompt_visible => Routable(prompt_label)

\* C1 as stated: a finished run over n files of which k have no route and
\* the others converted logs exactly n-k Success and exactly k Error
\* events and the Summary success = n-k, errors = k, and never shows the
\* prompt for a file without a route.
C1_ExactlyKErrorEvents ==
    /\ NeverPromptsUnroutable
    /\ (Finished /\ AllConversionsSucceeded)
         => /\ CountKind("SUCCESS") = Len(files) - NoRouteCount
            /\ CountKind("ERROR") = NoRouteCount
            /\ SummaryIs(Len(files) - NoRouteCount, NoRouteCount)

\* C1 as amended: the Error events are the k of the files without a route
\* and one more for every 'delete' decision whose removal of the original
\* failed; the rest is as stated.
C1_ErrorEventsCountFailedRemovals ==
    /\ NeverPromptsUnroutable
    /\ (Finished /\ AllConversionsSucceeded)
         => /\ CountKind("SUCCESS") = Len(files) - NoRouteCount
            /\ CountKind("ERROR") = NoRouteCount + FailedRemovals
            /\ WorkerErrors = NoRouteCount
            /\ SummaryIs(Len(files) - NoRouteCount, NoRouteCount)

C1_Witness ==
    /\ Finished /\ AllConversionsSucceeded
    /\ Len(files) = 3
    /\ Routable(files[1]) /\ ~Routable(files[2]) /\ Routable(files[3])
    /\ CountKind("SUCCESS") = 2 /\ CountKind("ERROR") = 1
    /\ SummaryIs(2, 1)
    /\ Len(prompts) = 2

\* Nothing can happen any more: the UI thread has no callback to run and
\* no prompt to answer, and the worker has no step to take.
AtRest ==
    /\ ui_call.fn = "none"
    /\ ~prompt_visible
    /\ ~ENABLED Worker

\* C2: the loop takes up the files one by one in batch order, calls
\* convert at most once for a file, advances the progress bar once for
\* every file it has finished, has one outcome record for each of them,
\* and comes to rest only after the last file, whichever files failed.
C2_FailuresDoNotStopBatch ==
    /\ Len(taken) <= Len(files)
    /\ \A j \in 1..Len(taken) : taken[j] = j
    /\ \A p, q \in 1..Len(convert_calls) :
          p # q => convert_calls[p][1] # convert_calls[q][1]
    /\ progress + (IF ui_call.fn = "advance" THEN 1 ELSE 0) = idx - 1
    /\ pc \in {"loop", "done"}
         => WorkerErrors + CountKind("SUCCESS") = idx - 1
    /\ AtRest
         => /\ pc = "done"
            /\ Len(taken) = Len(files)
            /\ progress = Len(files)

C2_Witness ==
    /\ Finished
    /\ Len(files) = 3 /\ progress = 3
    /\ \E c \in SeqRange(convert_calls) : c[1] = 1 /\ c[3] = "raised"
    /\ ~Routable(files[2])
    /\ \E c \in SeqRange(convert_calls) : c[1] = 3 /\ c[3] = "ok"
    /\ WorkerErrors = 2

\* C3: while the decision for a converted file is outstanding the worker
\* is still at that file, showing the prompt or waiting in
\* _wait_for_prompt: it has taken up no later file and advanced nothing;
\* and the decisions are handled for the converted files in their order.
C3_WorkerWaitsForDecision ==
    /\ Len(decisions) <= Len(OkCalls)
    /\ Len(OkCalls) <= Len(decisions) + 1
    /\ \A j \in 1..Len(decisions) : decisions[j][2] = OkCalls[j][2]
    /\ Len(OkCalls) > Len(decisions)
         => /\ pc \in {"show_prompt", "wait_prompt"}
            /\ idx = OkCalls[Len(OkCalls)][1]
            /\ taken[Len(taken)] = idx
            /\ progress + (IF ui_call.fn = "advance" THEN 1 ELSE 0) = idx - 1

C3_Witness ==
    /\ prompt_visible
    /\ pc = "wait_prompt" /\ ui_call.fn = "none"
    /\ idx < Len(files)
    /\ Len(OkCalls) = Len(decisions) + 1

\* The records of one kind, in the order they were written.
Records(kind) == SelectSeq(session_log, LAMBDA rec : rec.kind = kind)

\* File j of the batch met a failure: no route to the target, a convert
\* call that raised, or a 'delete' decision whose unlink raised.
ConvertRaised(j) ==
    \E c \in SeqRange(convert_calls) : c[1] = j /\ c[3] = "raised"

RemovalFailed(j) ==
    \E k \in 1..Len(decisions) :
        /\ k <= Len(OkCalls)
        /\ OkCalls[k][1] = j
        /\ decisions[k][3] = "failed"

FailedFile(j) == ~Routable(files[j]) \/ ConvertRaised(j) \/ RemovalFailed(j)

\* The indices among the first n files that met a failure, ascending.
FailedUpTo(n) == SelectSeq([j \in 1..n |-> j], FailedFile)

\* The Error records are, one for one and in order, the failures of the
\* first n files: each names its file, comes from the thread that met the
\* failure and carries the exception.
ErrorsAreFailuresUpTo(n) ==
    LET errs == Records("ERROR")
        bad  == FailedUpTo(n)
    IN  /\ Len(errs) = Len(bad)
        /\ \A k \in 1..Len(bad) :
              /\ errs[k].file = files[bad[k]]
              /\ errs[k].detail.raised
              /\ errs[k].thread = (IF RemovalFailed(bad[k]) THEN "ui"
                                   ELSE "worker")

\* C11: every failure met for a file (no route, convert raising, unlink
\* raising) has exactly one Error record for that file in the session log,
\* and the record is there before the worker takes up the next file: when
\* the worker is about to advance past file idx, and whenever it is
\* between files, the Error records are exactly the failures so far.
C11_EveryFailureLoggedOnce ==
    /\ pc = "advance" => ErrorsAreFailuresUpTo(idx)
    /\ pc \in {"loop", "done"} => ErrorsAreFailuresUpTo(idx - 1)
    /\ pc = "get_route" => ErrorsAreFailuresUpTo(idx - 1)

C11_Witness ==
    /\ Finished
    /\ Len(files) = 3
    /\ \E i, j, k \in 1..3 :
          /\ ~Routable(files[i]) /\ ConvertRaised(j) /\ RemovalFailed(k)
    /\ Len(Records("ERROR")) = 3

\* The handler of the decision for the current file has just returned:
\* the prompt was shown and is dismissed, and the worker has not yet
\* noticed.
DecisionHandled ==
    /\ pc = "wait_prompt" /\ ui_call.fn = "none" /\ ~prompt_visible

\* C12: every converted file whose decision was handled has exactly one
\* Success entry, in the order of the conversions, and when the handler
\* returns the entry says 'kept' exactly if the original still exists,
\* whether the user kept it, deleted it, or the deletion failed.
C12_KeptFlagRecordsRetention ==
    LET wins == Records("SUCCESS")
    IN  /\ Len(wins) = Len(decisions)
        /\ \A k \in 1..Len(wins) :
              /\ k <= Len(OkCalls)
              /\ wins[k].file = OkCalls[k][2]
              /\ wins[k].detail.destination
                    = get_output_path(OkCalls[k][2], target_format)
        /\ DecisionHandled =>
              /\ Len(wins) > 0
              /\ wins[Len(wins)].file = current_file
              /\ wins[Len(wins)].detail.original_kept
                    <=> (current_file \in fs)

\* Every file of the batch has reached Logged (its Success entry is
\* written) or Failed (the worker's Error record is written).
AllFilesSettled ==
    /\ Len(taken) = Len(files)
    /\ Len(decisions) = Len(OkCalls)
    /\ Len(Records("SUCCESS")) = Len(OkCalls)
    /\ WorkerErrors + Len(OkCalls) = Len(files)

\* C13: the log starts with the one session banner; the Summary is
\* written at most once, exactly once in a run that has finished, only
\* when every file is Logged or Failed, and it is the last record of the
\* log: every per-file record, the Success entry of the last decision
\* included, comes before it.
C13_OneSummaryAfterAllFiles ==
    /\ Len(session_log) >= 1
    /\ session_log[1].kind = "START"
    /\ CountKind("START") = 1
    /\ CountKind("SUMMARY") = (IF pc = "done" THEN 1 ELSE 0)
    /\ CountKind("SUMMARY") = 1 =>
          /\ session_log[Len(session_log)].kind = "SUMMARY"
          /\ AllFilesSettled

\* C19: under fair scheduling every batch finishes: every file is Logged
\* or Failed and the one Summary is written; and a worker that waits for
\* a decision, whether it turns out keep, delete or a delete whose unlink
\* raised, leaves its wait and goes on to advance the progress bar.
C19_EveryBatchFinishes ==
    /\ <>(Finished /\ AllFilesSettled /\ CountKind("SUMMARY") = 1)
    /\ (pc = "wait_prompt") ~> (pc = "advance")

\* A finished batch of three files with one decision of each kind.
C19_Witness ==
    /\ Finished
    /\ Len(decisions) = 3
    /\ \A how \in {"kept", "removed", "failed"} :
          \E j \in 1..3 : decisions[j][3] = how

\* C20: while the prompt is on the screen the worker is in
\* _wait_for_prompt at the file it converted last, the prompt names that
\* file, and _current_file and _converted_output are that file and its
\* output; so every decision is handled for the file it was asked about:
\* its Success record names that file and its output, and a delete that
\* went through has removed that file before the worker moves on.
C20_PromptNamesOneFile ==
    LET succ == Records("SUCCESS")
        n    == Len(OkCalls)
    IN  /\ prompt_visible =>
              /\ pc = "wait_prompt" /\ ui_call.fn = "none"
              /\ n = Len(decisions) + 1
              /\ OkCalls[n][1] = idx
              /\ current_file = files[idx]
              /\ prompt_label = files[idx]
              /\ converted_output = get_output_path(files[idx], target_format)
        /\ Len(succ) = Len(decisions)
        /\ \A k \in 1..Len(decisions) :
              /\ k <= n
              /\ decisions[k][2] = OkCalls[k][2]
              /\ succ[k].thread = "ui"
              /\ succ[k].file = OkCalls[k][2]
              /\ succ[k].detail.destination =
                    get_output_path(OkCalls[k][2], target_format)
        /\ ( /\ pc = "wait_prompt" /\ n > 0 /\ Len(decisions) = n
             /\ decisions[n][3] = "removed" )
              => OkCalls[n][2] \notin fs

\* The prompt for the second file of a batch, a file other than the first,
\* after the first was deleted.
C20_Witness ==
    /\ prompt_visible
    /\ idx = 2 /\ files[1] # files[2]
    /\ Len(decisions) = 1 /\ decisions[1][3] = "removed"
    /\ current_file = files[2]

C13_Witness ==
    /\ Finished
    /\ Len(files) = 3
    /\ session_log[Len(session_log)].kind = "SUMMARY"
    /\ session_log[Len(session_log) - 1].kind = "SUCCESS"
    /\ session_log[Len(session_log) - 1].thread = "ui"
    /\ session_log[Len(session_log) - 1].file = files[3]
    /\ WorkerErrors = 1

\* The file's route to the target exists and is marked lossy.
LossyFile(file) ==
    /\ Routable(file)
    /\ get_route(routes, Lower(file.suffix), target_format).value.lossy

\* The success lines of the log panel, in order.
OkLines == SelectSeq(log_panel, LAMBDA line : line[1] = "ok")

\* C21, as amended: the lossy warning is written for a file exactly when
\* its resolved route is marked lossy, before convert is called and so
\* whether or not the conversion then succeeds: the outcome line of a
\* file, success or error, comes right after the file's warning when the
\* route is lossy and after no warning otherwise, and a warning is
\* followed by nothing but its file's outcome line; the success line of a
\* file is in the panel before the prompt for it is shown.
C21_WarningIffLossyRoute ==
    /\ \A i \in 1..Len(log_panel) :
          LET line == log_panel[i]
          IN  /\ line[1] = "lossy" =>
                    /\ LossyFile(line[2])
                    /\ i < Len(log_panel) =>
                          /\ log_panel[i + 1][1] \in {"ok", "error"}
                          /\ log_panel[i + 1][2] = line[2]
              /\ line[1] \in {"ok", "error"} =>
                    (LossyFile(line[2])
                        <=> /\ i > 1
                            /\ log_panel[i - 1][1] = "lossy"
                            /\ log_panel[i - 1][2] = line[2])
    /\ Len(prompts) <= Len(OkLines)
    /\ Len(OkLines) <= Len(prompts) + 1
    /\ \A j \in 1..Len(prompts) : prompts[j] = OkLines[j][2]

\* A warning whose conversion then failed, and a warning followed by the
\* success line and the prompt.
C21_Witness ==
    /\ \E i \in 1..(Len(log_panel) - 1) :
          /\ log_panel[i][1] = "lossy"
          /\ log_panel[i + 1][1] = "error"
    /\ \E i \in 1..(Len(log_panel) - 1) :
          /\ log_panel[i][1] = "lossy"
          /\ log_panel[i + 1][1] = "ok"
    /\ prompt_visible

\* C21, as stated: a warning is written only for a file whose conversion
\* succeeded, so the line after a warning is its file's success line.
C21_WarningOnlyOnSuccess ==
    \A i \in 1..(Len(log_panel) - 1) :
        log_panel[i][1] = "lossy" => log_panel[i + 1][1] = "ok"

\* C23: once the Summary is written, its error count is the number of
\* Error records of the session log and its success count the number of
\* Success records.
C23_SummaryCountsRecords ==
    pc = "done" =>
        LET summary == Records("SUMMARY")[1].detail
        IN  /\ summary.errors = CountKind("ERROR")
            /\ summary.success = CountKind("SUCCESS")

\* A file of the batch is missing only if a delete decision removed it.
MissingWereDeleted ==
    \A i \in 1..Len(files) :
        files[i] \notin fs
            => \E k \in 1..Len(decisions) :
                  decisions[k] = <<"delete", files[i], "removed">>

\* A step that removes a file is the handling of a delete decision: it
\* removes the file the worker is at and shows the prompt for, whose
\* conversion has succeeded, and no other.
RemovalStep ==
    fs \ fs' # {} =>
        /\ prompt_visible /\ pc = "wait_prompt"
        /\ fs \ fs' = {files[idx]}
        /\ current_file = files[idx]
        /\ \E c \in SeqRange(convert_calls) : c[1] = idx /\ c[3] = "ok"
        /\ decisions' = Append(decisions, <<"delete", files[idx], "removed">>)

\* C26: the driver removes a file only when it handles a delete decision,
\* and then only the source of the file the decision is about, after its
\* conversion succeeded; keep decisions, files without a route and failed
\* conversions remove nothing.
C26_RemovesOnlyOnDelete == []MissingWereDeleted /\ [][RemovalStep]_vars

\* A finished batch of three different files: the first was converted and
\* deleted, the second has no route, the third was converted and kept; the
\* second and the third are in place.
C26_Witness ==
    /\ Finished
    /\ Len(files) = 3
    /\ files[1] \notin fs
    /\ files[2] # files[1] /\ files[2] \in fs /\ ~Routable(files[2])
    /\ files[3] \in fs /\ files[3] \notin {files[1], files[2]}
    /\ decisions = << <<"delete", files[1], "removed">>,
                      <<"keep", files[3], "kept">> >>

Registered(s, t) == DictContains(routes, <<s, t>>)

Known(e) == e \in DOMAIN EXTENSION_MEDIA_TYPE

IsCrossDomainError(r) ==
    /\ r.raised /\ r.exc = "ValueError"
    /\ r.msg[1] = CrossDomainText

IsNoRouteError(r) ==
    /\ r.raised /\ r.exc = "ValueError"
    /\ r.msg[1] = NoRouteText

\* What C4 asks of the result r of get_route(s, t) when the lower-cased
\* pair is unregistered and spans two domains of the catalog.
CrossDomainAnswer(r, s, t) ==
    (/\ ~Registered(Lower(s), Lower(t))
     /\ Known(Lower(s)) /\ Known(Lower(t))
     /\ EXTENSION_MEDIA_TYPE[Lower(s)] # EXTENSION_MEDIA_TYPE[Lower(t)])
    => /\ IsCrossDomainError(r)
       /\ ~IsNoRouteError(r)
       /\ r.msg[3] = EXTENSION_MEDIA_TYPE[Lower(s)].value
       /\ r.msg[5] = EXTENSION_MEDIA_TYPE[Lower(t)].value

\* C4: get_route on an unregistered pair of catalog formats of two
\* different domains raises the cross-domain error, which names both
\* domains and is not the generic no-route error: for every get_route
\* call made, and for every pair of catalog extensions on the populated
\* registry.
C4_CrossDomainRejected ==
    /\ call.op = "get_route"
         => CrossDomainAnswer(call.result, call.args[1], call.args[2])
    /\ Built =>
         \A s, t \in KnownExtensions :
            CrossDomainAnswer(get_route(routes, s, t), s, t)

C4_Witness ==
    /\ call.op = "get_route" /\ call.args = <<mp4, pdf>>
    /\ IsCrossDomainError(call.result)
    /\ call.result.msg[3] = "video" /\ call.result.msg[5] = "document"

\* C5 as stated: get_route("heic", "mp3") raises the generic no-route
\* error.
C5_HeicMp3IsRouteNotFound ==
    (call.op = "get_route" /\ call.args = <<heic, mp3>>)
        => IsNoRouteError(call.result)

\* C5 as amended: get_route("heic", "mp3") raises the cross-domain error
\* (heic is an image format, mp3 an audio format); the generic no-route
\* error is what an unregistered pair gets whose formats share a domain or
\* are not both in the catalog, such as ("jpg", "heic") and ("xyz", "mp3");
\* no result is both errors.
C5_HeicMp3IsCrossDomain ==
    call.op = "get_route" =>
        LET s == Lower(call.args[1])
            t == Lower(call.args[2])
            r == call.result
        IN  /\ (s = heic /\ t = mp3) => IsCrossDomainError(r)
            /\ (/\ ~Registered(s, t)
                /\ \/ ~Known(s)
                   \/ ~Known(t)
                   \/ EXTENSION_MEDIA_TYPE[s] = EXTENSION_MEDIA_TYPE[t])
                 => IsNoRouteError(r)
            /\ r.raised => (IsCrossDomainError(r) # IsNoRouteError(r))

C5_Witness ==
    /\ call.op = "get_route" /\ call.args = <<heic, mp3>>
    /\ IsCrossDomainError(call.result)
    /\ call.result.msg[3] = "image" /\ call.result.msg[5] = "audio"

\* The default route table as section 6 of the specification lists it.
RouteTable ==
    {<<heic, jpg, TRUE>>, <<heic, png, FALSE>>, <<jpg, png, FALSE>>,
     <<jpg, webp, TRUE>>, <<png, jpg, TRUE>>, <<png, webp, FALSE>>,
     <<png, gif, FALSE>>, <<webp, jpg, TRUE>>, <<webp, png, FALSE>>,
     <<gif, png, FALSE>>, <<bmp, jpg, TRUE>>, <<bmp, png, FALSE>>,
     <<tiff, jpg, TRUE>>, <<tiff, png, FALSE>>,
     <<mp4, avi, FALSE>>, <<mp4, mkv, FALSE>>, <<mp4, mov, FALSE>>,
     <<avi, mp4, FALSE>>, <<avi, mkv, FALSE>>, <<mkv, mp4, FALSE>>,
     <<mkv, avi, FALSE>>, <<mov, mp4, FALSE>>, <<mov, avi, FALSE>>,
     <<mp3, wav, FALSE>>, <<mp3, flac, FALSE>>, <<wav, mp3, TRUE>>,
     <<wav, flac, FALSE>>, <<flac, mp3, TRUE>>, <<flac, wav, FALSE>>,
     <<aac, mp3, TRUE>>, <<aac, wav, FALSE>>, <<m4a, mp3, TRUE>>,
     <<m4a, wav, FALSE>>,
     <<pdf, txt, FALSE>>, <<docx, txt, FALSE>>}

\* C6: on the populated registry, every triple of the default route table
\* is valid and resolves to a route with the table's lossy flag; so does
\* every is_valid and get_route call made on a pair of the table.
C6_RegisteredRoutesResolve ==
    /\ Built =>
         \A row \in RouteTable :
            /\ is_valid(routes, row[1], row[2])
            /\ ~get_route(routes, row[1], row[2]).raised
            /\ get_route(routes, row[1], row[2]).value.lossy = row[3]
    /\ \A row \in RouteTable :
         /\ (call.op = "is_valid" /\ call.args = <<row[1], row[2]>>)
              => call.result = TRUE
         /\ (call.op = "get_route" /\ call.args = <<row[1], row[2]>>)
              => /\ ~call.result.raised
                 /\ call.result.value.lossy = row[3]
                 /\ call.result.value.source_format = row[1]
                 /\ call.result.value.target_format = row[2]

C6_Witness ==
    /\ call.op = "get_route" /\ call.args = <<heic, jpg>>
    /\ ~call.result.raised
    /\ call.result.value.lossy = TRUE

\* What C7 asks of the result r of get_valid_targets(s).
ValidTargetsAnswer(r, s) ==
    /\ {r[i] : i \in 1..Len(r)} =
          {item.key[2] : item \in
              {routes[i] : i \in {j \in 1..Len(routes) :
                                    routes[j].key[1] = Lower(s)}}}
    /\ \A i, j \in 1..Len(r) : i < j => StrLess(r[i], r[j])
    /\ (\A i \in 1..Len(routes) : routes[i].key[1] # Lower(s)) => r = <<>>

\* C7: get_valid_targets returns exactly the registered targets of the
\* source, each once, in ascending order, and the empty sequence for a
\* source without a route: for every call made, and for every catalog
\* extension and "xyz" on the populated registry, where "heic" gives
\* <<"jpg", "png">>.
C7_ValidTargetsSorted ==
    /\ call.op = "get_valid_targets"
         => ValidTargetsAnswer(call.result, call.args[1])
    /\ Built =>
         /\ \A s \in KnownExtensions \cup {xyz} :
               ValidTargetsAnswer(get_valid_targets(routes, s), s)
         /\ get_valid_targets(routes, heic) = <<jpg, png>>
         /\ get_valid_targets(routes, xyz) = <<>>

C7_Witness ==
    /\ call.op = "get_valid_targets" /\ call.args = <<png>>
    /\ call.result = <<gif, jpg, webp>>

\* C8: every lookup made with arguments in upper or mixed case has the
\* outcome of the same lookup with the arguments in lower case: the same
\* value, or the same kind of error.
C8_CaseInsensitive ==
    /\ call.op = "is_valid" =>
         call.result =
            is_valid(routes, Lower(call.args[1]), Lower(call.args[2]))
    /\ call.op = "get_route" =>
         LET low == get_route(routes, Lower(call.args[1]),
                              Lower(call.args[2]))
         IN  /\ call.result.raised = low.raised
             /\ ~low.raised => call.result.value = low.value
             /\ low.raised => /\ call.result.exc = low.exc
                              /\ call.result.msg[1] = low.msg[1]
    /\ call.op = "get_valid_targets" =>
         call.result = get_valid_targets(routes, Lower(call.args[1]))
    /\ call.op = "get_media_type" =>
         call.result = get_media_type(Lower(call.args[1]))

C8_Witness ==
    /\ call.op = "is_valid"
    /\ call.args = <<Upper(heic), Upper(jpg)>>
    /\ call.args # <<heic, jpg>>
    /\ call.result = TRUE

\* C9: in every state of the registry, during and after its population,
\* a registered route whose two formats are in the extension catalog has
\* both in one media domain.
C9_NoCrossDomainRoute ==
    \A i \in 1..Len(routes) :
        LET s == routes[i].key[1]
            t == routes[i].key[2]
        IN  (Known(s) /\ Known(t))
                => EXTENSION_MEDIA_TYPE[s] = EXTENSION_MEDIA_TYPE[t]

C9_Witness ==
    /\ Built
    /\ Len(routes) = Len(DefaultRoutes)
    /\ \E i \in 1..Len(routes) :
          /\ routes[i].key = <<pdf, txt>>
          /\ routes[i].value.converter_class = DocumentConverter

\* C10: once the registry is populated its route map is the map the
\* population built, whatever lookups have been made since, failing ones
\* included; and a get_route call returns what an earlier get_route call
\* with the same arguments returned.
C10_LookupsLeaveRoutes ==
    /\ Built => routes = build_default_registry
    /\ (/\ call.op = "get_route" /\ pinned.op = "get_route"
        /\ call.args = pinned.args)
         => call.result = pinned.result

C10_Witness ==
    /\ pinned.op = "get_route" /\ call.op = "get_route"
    /\ call.args = pinned.args
    /\ call.args = <<heic, jpg>>
    /\ ~call.result.raised

====
